---- MODULE Spec2Model ----
(***************************************************************************)
(* Model of the IAWFPIDM diagnostic console: the module context            *)
(* (progressive tab unlocking, progress store) and the diagnostic context  *)
(* (session manager, DTC result cache).                                    *)
(*                                                                         *)
(* Both contexts are React providers.  A handler reads the state values    *)
(* captured by the closure of the render it was created in, queues state   *)
(* updates (setX(prev => ...)) and writes localStorage synchronously.      *)
(* The variables hold the rendered state; one step of the module context   *)
(* is one event-loop turn: one or two handler calls that run against the   *)
(* same rendered snapshot, followed by the commit of the queued updates.   *)
(***************************************************************************)
EXTENDS Integers, Sequences, FiniteSets, TLC

(***************************************************************************)
(* Capability catalog (initializeModuleSystem)                             *)
(***************************************************************************)
Caps(ld, act, rout) == [live_data |-> ld, actuator_testing |-> act, diagnostic_routines |-> rout]

availableModules ==
  [ EMS  |-> Caps(TRUE, TRUE, TRUE),
    TCU  |-> Caps(TRUE, TRUE, TRUE),
    ESP  |-> Caps(TRUE, TRUE, TRUE),
    ESCL |-> Caps(TRUE, FALSE, TRUE),
    PKE  |-> Caps(TRUE, FALSE, TRUE),
    SRS  |-> Caps(TRUE, FALSE, TRUE),
    MBFM |-> Caps(TRUE, TRUE, TRUE),
    SVS  |-> Caps(TRUE, FALSE, FALSE),
    ABS  |-> Caps(TRUE, TRUE, TRUE),
    CCM  |-> Caps(TRUE, TRUE, TRUE) ]

\* availableModules.find(m => m.id === moduleId) succeeds
InCatalog(moduleId) == moduleId \in DOMAIN availableModules

\* The modules the model exercises: one with every capability, one without
\* actuator tests and routines.
Modules == {"EMS", "SVS"}

\* An id that is not in the catalog.
UnknownModule == "XXX"

ModuleIds == Modules \cup {UnknownModule}

TabNames == {"DTC", "ECU_Id", "Live_Data", "Actuators", "Routines"}

(***************************************************************************)
(* Partial maps (JavaScript objects)                                       *)
(***************************************************************************)
EmptyMap == [k \in {} |-> TRUE]

Has(obj, k) == k \in DOMAIN obj

Put(obj, k, v) == [x \in (DOMAIN obj) \cup {k} |-> IF x = k THEN v ELSE obj[x]]

Del(obj, k) == [x \in (DOMAIN obj) \ {k} |-> obj[x]]

\* { ...a, ...b }
Spread(a, b) == [x \in (DOMAIN a) \cup (DOMAIN b) |-> IF x \in DOMAIN b THEN b[x] ELSE a[x]]

\* A localStorage record: absent, or present with a value.
Absent == [present |-> FALSE, val |-> EmptyMap]

Stored(v) == [present |-> TRUE, val |-> v]

(***************************************************************************)
(* Progress records and partial updates                                    *)
(***************************************************************************)
\* The progress record selectModule creates.  Its timestamp lastSession, which
\* no handler reads, is not modelled.
initialProgress ==
  [ dtcAnalyzed |-> FALSE,
    categoriesViewed |-> <<>>,
    individualFreezeFramesViewed |-> <<>>,
    ecuIdAccessed |-> FALSE,
    liveDataAccessed |-> FALSE,
    actuatorsAccessed |-> FALSE,
    routinesAccessed |-> FALSE,
    totalSessions |-> 0 ]

\* The tab gates selectModule creates.
initialTabs ==
  [ DTC |-> TRUE, ECU_Id |-> FALSE, Live_Data |-> FALSE, Actuators |-> FALSE, Routines |-> FALSE ]

\* The partial updates (progressData) the model reports: the ones the views
\* report, the scenario of the specification, and updates that overwrite a
\* field with a lower value (the merge is last-write-wins).
UpdateIds == {"dtc", "dtcCat", "cat2", "ecu", "undtc", "unecu"}

progressData(u) ==
  CASE u = "dtc"    -> [dtcAnalyzed |-> TRUE]
    [] u = "dtcCat" -> [dtcAnalyzed |-> TRUE, categoriesViewed |-> <<"Fuel System">>]
    [] u = "cat2"   -> [categoriesViewed |-> <<"Ignition System">>]
    [] u = "ecu"    -> [ecuIdAccessed |-> TRUE]
    [] u = "undtc"  -> [dtcAnalyzed |-> FALSE]
    [] u = "unecu"  -> [ecuIdAccessed |-> FALSE]

\* JavaScript truthiness of obj.field for a boolean field that may be missing.
Truthy(obj, field) == Has(obj, field) /\ obj[field] = TRUE

\* updatedProgress.categoriesViewed?.length > 0
HasCategories(p) == Has(p, "categoriesViewed") /\ Len(p["categoriesViewed"]) > 0

(***************************************************************************)
(* State                                                                   *)
(***************************************************************************)
VARIABLES
  activeModule,      \* id of the active module, or "null"
  moduleProgress,    \* module id -> progress record (only the modules that have one)
  unlockedTabs,      \* module id -> tab name -> BOOLEAN (only the keys that exist)
  moduleHistory,     \* module id -> number of history entries (only the modules that have one)
  lsProgress,        \* localStorage iawfpidm_module_progress
  lsTabs,            \* localStorage iawfpidm_unlocked_tabs
  lsHistory          \* localStorage iawfpidm_module_history

moduleVars == <<activeModule, moduleProgress, unlockedTabs, moduleHistory, lsProgress, lsTabs, lsHistory>>

VARIABLES
  diagnosticSession, \* the active session record, or NoSession (null)
  sessionHistory,    \* sequence of session records, most recent first
  currentPage,       \* diagnostic page
  selectedECU,       \* id of the selected ECU, or "null"
  dtcData,           \* id of the module whose DTC records are shown, or "none" ([])
  isScanning,
  scanProgress,
  diagnosticErrors,  \* "none" ([]) or the message of the last error
  lsSession,         \* localStorage iawfpidm_diagnostic_session (NoSession: absent)
  lsSessionHistory,  \* localStorage iawfpidm_diagnostic_history
  dtcCache,          \* keys <<moduleId, sessionId>> of the cache blobs in localStorage
  starting,          \* the startDiagnosticSession call in flight, with what its closure captured
  loading,           \* the loadDTCData calls suspended at their await (a bag)
  nextSessionId,     \* stands for Date.now() and the random suffix of the next session id
  loaderCalls,       \* spy: invocations of generateDTCData per cache key
  served,            \* spy: completed loadDTCData calls per cache key
  overlapped,        \* spy: cache keys for which two loadDTCData calls overlapped
  failed,            \* spy: invocations of generateDTCData that threw, per cache key
  corruptBlobs       \* keys of the cache blobs whose text JSON.parse rejects

diagVars ==
  <<diagnosticSession, sessionHistory, currentPage, selectedECU, dtcData, isScanning, scanProgress,
    diagnosticErrors, lsSession, lsSessionHistory, dtcCache, starting, loading, nextSessionId,
    loaderCalls, served, overlapped, failed, corruptBlobs>>

VARIABLES
  currentVehicle,    \* id of the current vehicle, or "none" (null)
  currentRoute,      \* the route MainApplication shows
  pageHistory        \* the back-navigation stack of MainApplication, oldest first

appVars == <<currentVehicle, currentRoute, pageHistory>>

vars == <<moduleVars, diagVars, appVars>>

\* Largest number of history entries per module the model lets accumulate.
MaxHist == 2

\* moduleHistory keeps the last 50 activities of a module.
HistoryCap == 50

\* The handlers' view of the provider: the state and the storage as one record.
Store ==
  [ am |-> activeModule, mp |-> moduleProgress, ut |-> unlockedTabs, mh |-> moduleHistory,
    lsP |-> lsProgress, lsT |-> lsTabs, lsH |-> lsHistory ]

(***************************************************************************)
(* Handlers.  snap is the rendered state the closure captured, st the      *)
(* state with the updates queued so far in this turn (and the storage).    *)
(***************************************************************************)
selectModule(snap, st, moduleId) ==
  IF ~InCatalog(moduleId) THEN st
  ELSE [st EXCEPT
          !.am = moduleId,
          !.mp = IF ~Has(snap.mp, moduleId) THEN Put(@, moduleId, initialProgress) ELSE @,
          !.ut = IF ~Has(snap.ut, moduleId) THEN Put(@, moduleId, initialTabs) ELSE @]

\* new Date().toISOString() in a call for moduleId: the clock, read as the
\* number of the update of the module. Calls of one turn read the same time,
\* calls of later turns a later one.
Now(snap, moduleId) == (IF Has(snap.mh, moduleId) THEN snap.mh[moduleId] ELSE 0) + 1

\* { ...moduleProgress[moduleId], ...progressData, lastUpdated }
MergedProgress(snap, moduleId, u) ==
  Spread(Spread(IF Has(snap.mp, moduleId) THEN snap.mp[moduleId] ELSE EmptyMap, progressData(u)),
         [lastUpdated |-> Now(snap, moduleId)])

\* Mutant: the category check is forgotten.
UnlockEcuId_NoCategories(tabs, progress) ==
  IF Truthy(progress, "dtcAnalyzed") THEN Put(tabs, "ECU_Id", TRUE) ELSE tabs

\* ECU_Id is set once DTC analysis is done and a category was viewed.
UnlockEcuId(tabs, progress) ==
  IF Truthy(progress, "dtcAnalyzed") /\ HasCategories(progress)
  THEN Put(tabs, "ECU_Id", TRUE) ELSE tabs

\* Mutant: the capability flag of the module is not consulted.
UnlockIfCapable_IgnoreCapability(tabs, progress, moduleId, capability, tab) ==
  IF Truthy(progress, "ecuIdAccessed") THEN Put(tabs, tab, TRUE) ELSE tabs

\* A capability-gated tab is set once ECU identification was accessed.
UnlockIfCapable(tabs, progress, moduleId, capability, tab) ==
  IF Truthy(progress, "ecuIdAccessed") /\ availableModules[moduleId][capability]
  THEN Put(tabs, tab, TRUE) ELSE tabs

\* Mutant: the Routines tab is left out.
UnlockAdvanced_SkipRoutines(tabs, progress, moduleId) ==
  UnlockIfCapable(
    UnlockIfCapable(tabs, progress, moduleId, "live_data", "Live_Data"),
    progress, moduleId, "actuator_testing", "Actuators")

\* if (updatedProgress.ecuIdAccessed) { Live_Data, Actuators, Routines }
UnlockAdvanced(tabs, progress, moduleId) ==
  UnlockIfCapable(
    UnlockIfCapable(
      UnlockIfCapable(tabs, progress, moduleId, "live_data", "Live_Data"),
      progress, moduleId, "actuator_testing", "Actuators"),
    progress, moduleId, "diagnostic_routines", "Routines")

\* Mutant: the gates are recomputed from the initial gates, not from the current ones.
NewUnlockedTabs_Recomputed(snap, moduleId, progress) ==
  UnlockAdvanced(UnlockEcuId(initialTabs, progress), progress, moduleId)

\* newUnlockedTabs of updateModuleProgress
NewUnlockedTabs(snap, moduleId, progress) ==
  UnlockAdvanced(
    UnlockEcuId(IF Has(snap.ut, moduleId) THEN snap.ut[moduleId] ELSE EmptyMap, progress),
    progress, moduleId)

\* [newActivity, ...currentHistory].slice(0, 50), as a number of entries
UpdatedHistory(snap, moduleId) ==
  LET n == IF Has(snap.mh, moduleId) THEN snap.mh[moduleId] ELSE 0
  IN  IF n + 1 > HistoryCap THEN HistoryCap ELSE n + 1

updateModuleHistory(snap, st, moduleId) ==
  [st EXCEPT
     !.mh = Put(@, moduleId, UpdatedHistory(snap, moduleId)),
     !.lsH = Stored(Put(snap.mh, moduleId, UpdatedHistory(snap, moduleId)))]

updateModuleProgress(snap, st, moduleId, u) ==
  IF ~InCatalog(moduleId) THEN st
  ELSE LET updatedProgress == MergedProgress(snap, moduleId, u)
           newUnlockedTabs == NewUnlockedTabs(snap, moduleId, updatedProgress)
       IN  updateModuleHistory(snap,
             [st EXCEPT
                !.mp = Put(@, moduleId, updatedProgress),
                !.ut = Put(@, moduleId, newUnlockedTabs),
                !.lsP = Stored(Put(snap.mp, moduleId, updatedProgress)),
                !.lsT = Stored(Put(snap.ut, moduleId, newUnlockedTabs))],
             moduleId)

\* resetModuleProgress(moduleId): one module
resetOne(st, moduleId) ==
  [st EXCEPT
     !.mp = Del(@, moduleId),
     !.ut = Del(@, moduleId),
     !.lsP = Stored(Del(@.val, moduleId)),
     !.lsT = Stored(Del(@.val, moduleId))]

\* resetModuleProgress(): every module
resetAll(st) ==
  [st EXCEPT !.mp = EmptyMap, !.ut = EmptyMap, !.lsP = Absent, !.lsT = Absent, !.lsH = Absent]

resetModuleProgress(st, moduleId) ==
  IF moduleId = "null" THEN resetAll(st) ELSE resetOne(st, moduleId)

\* unlockedTabs[moduleId]?.[tabName] || false
isTabUnlocked(moduleId, tabName) ==
  /\ Has(unlockedTabs, moduleId)
  /\ Has(unlockedTabs[moduleId], tabName)
  /\ unlockedTabs[moduleId][tabName] = TRUE

(***************************************************************************)
(* Event-loop turns                                                        *)
(***************************************************************************)
SelectCall(m) == [op |-> "select", m |-> m, u |-> "none"]

UpdateCall(m, u) == [op |-> "update", m |-> m, u |-> u]

ResetCall(m) == [op |-> "reset", m |-> m, u |-> "none"]

\* The calls of one turn that concern module m.
ModuleCalls(m) == {SelectCall(m)} \cup {UpdateCall(m, u) : u \in UpdateIds}

\* The model stops reporting progress for a module whose history is full.
CallEnabled(c) ==
  c.op = "update" /\ InCatalog(c.m) =>
    (IF Has(moduleHistory, c.m) THEN moduleHistory[c.m] ELSE 0) < MaxHist

ApplyCall(c, snap, st) ==
  CASE c.op = "select" -> selectModule(snap, st, c.m)
    [] c.op = "update" -> updateModuleProgress(snap, st, c.m, c.u)
    [] c.op = "reset"  -> resetModuleProgress(st, c.m)

\* React commits the queued updates and renders.
Commit(st) ==
  /\ activeModule' = st.am
  /\ moduleProgress' = st.mp
  /\ unlockedTabs' = st.ut
  /\ moduleHistory' = st.mh
  /\ lsProgress' = st.lsP
  /\ lsTabs' = st.lsT
  /\ lsHistory' = st.lsH
  /\ UNCHANGED <<diagVars, appVars>>

\* One handler call in a turn.
Turn(c) ==
  /\ CallEnabled(c)
  /\ Commit(ApplyCall(c, Store, Store))

\* Two handler calls in the same turn (two effects of one commit, two views
\* mounted together): both closures hold the same snapshot.
SameTurn(c1, c2) ==
  /\ CallEnabled(c1)
  /\ CallEnabled(c2)
  /\ Commit(ApplyCall(c2, Store, ApplyCall(c1, Store, Store)))

SelectModule(m) == Turn(SelectCall(m))

UpdateModuleProgress(m, u) == Turn(UpdateCall(m, u))

ResetModuleProgress(m) == Turn(ResetCall(m))

ModuleInit ==
  /\ activeModule = "null"
  /\ moduleProgress = EmptyMap
  /\ unlockedTabs = EmptyMap
  /\ moduleHistory = EmptyMap
  /\ lsProgress = Absent
  /\ lsTabs = Absent
  /\ lsHistory = Absent

(***************************************************************************)
(* Diagnostic context: sessions                                            *)
(***************************************************************************)
\* The vehicles handed to startDiagnosticSession.
Vehicles == {"vA", "vB"}

\* Most sessions created in one run.
MaxSessions == 2

\* Most loadDTCData calls in one run.
MaxLoadCalls == 2

\* addToSessionHistory keeps the ten most recent sessions.
SessionHistoryCap == 10

\* updateSessionActivity keeps the last fifty actions.
ActionLogCap == 50

\* A vehicle profile whose ecuModules is missing, empty or names no module of
\* the module database.
NoEcuVehicle == "vNoEcu"

\* The ids in the module database of getModuleInfo.
moduleDatabase == {"EMS", "TCU", "ESP", "SRS", "MBFM", "CCM", "ABS", "PKE", "ESCL", "SVS"}

\* vehicleData.ecuModules || []
ecuModules(vehicleData) ==
  CASE vehicleData = "vA" -> {"EMS", "SVS", "DEF"}
    [] vehicleData = "vB" -> {"EMS"}
    [] OTHER -> {}

\* The modules of the vehicle that the module database knows.
scanECUModules(vehicleData) == {m \in ecuModules(vehicleData) : m \in moduleDatabase}

\* null, as a record: no session has id 0.
NoSession == [id |-> 0, vehicleId |-> "none", status |-> "none", actions |-> 0, totalECUs |-> 0]

IsSession(s) == s.id # 0

\* The fields of a session object the handlers read or write; actions is the
\* length of diagnosticActions.
createDiagnosticSession(vehicleData, id) ==
  [id |-> id, vehicleId |-> vehicleData, status |-> "active", actions |-> 0,
   totalECUs |-> Cardinality(scanECUModules(vehicleData))]

Take(s, n) == IF Len(s) <= n THEN s ELSE SubSeq(s, 1, n)

FilterOut(s, id) == SelectSeq(s, LAMBDA x : x.id # id)

updatedHistory_Duplicating(history, session) == Take(<<session>> \o history, SessionHistoryCap)

\* [session, ...sessionHistory.filter(s => s.id !== session.id)].slice(0, 10)
updatedHistory(history, session) ==
  Take(<<session>> \o FilterOut(history, session.id), SessionHistoryCap)

\* [...diagnosticActions, entry].slice(-50)
updatedSession(session) ==
  [session EXCEPT !.actions = IF @ + 1 > ActionLogCap THEN ActionLogCap ELSE @ + 1]

EndedSession_StillActive(session) == session

\* { ...diagnosticSession, status: 'completed', endTime, duration }
endedSession(session) == [session EXCEPT !.status = "completed"]

\* Sets the state and the stored copy of the history from the history the
\* calling closure holds.
addToSessionHistory(history, session) ==
  /\ sessionHistory' = updatedHistory(history, session)
  /\ lsSessionHistory' = Stored(updatedHistory(history, session))

\* Appends to the action log of the session the calling closure holds; nothing
\* happens when that closure holds no session.
updateSessionActivity(session) ==
  IF IsSession(session)
  THEN /\ diagnosticSession' = updatedSession(session)
       /\ lsSession' = updatedSession(session)
  ELSE UNCHANGED <<diagnosticSession, lsSession>>

NotStarting == [active |-> FALSE, vehicle |-> "none", history |-> <<>>, pc |-> 0, session |-> NoSession]

\* scanProgress at the suspension points of startDiagnosticSession. The value 90
\* is overwritten by 100 before the function suspends again.
Checkpoint(pc) == CASE pc = 1 -> 10 [] pc = 2 -> 25 [] pc = 3 -> 50 [] pc = 4 -> 75 [] pc = 5 -> 100

\* startDiagnosticSession up to its first await. The function closes over the
\* sessionHistory of the render that created it.
StartBegin(v) ==
  /\ ~starting.active
  /\ nextSessionId <= MaxSessions
  /\ starting' = [active |-> TRUE, vehicle |-> v, history |-> sessionHistory, pc |-> 1, session |-> NoSession]
  /\ isScanning' = TRUE
  /\ scanProgress' = Checkpoint(1)
  /\ diagnosticErrors' = "none"
  /\ UNCHANGED <<diagnosticSession, sessionHistory, currentPage, selectedECU, dtcData, lsSession,
                 lsSessionHistory, dtcCache, loading, nextSessionId, loaderCalls, served, overlapped, failed, corruptBlobs>>

\* From one await to the next: steps 2 to 4.
StartStep ==
  /\ starting.active
  /\ starting.pc \in 1..3
  /\ starting' = [starting EXCEPT !.pc = @ + 1]
  /\ scanProgress' = Checkpoint(starting.pc + 1)
  /\ UNCHANGED <<diagnosticSession, sessionHistory, currentPage, selectedECU, dtcData, isScanning,
                 diagnosticErrors, lsSession, lsSessionHistory, dtcCache, loading, nextSessionId,
                 loaderCalls, served, overlapped, failed, corruptBlobs>>

\* Steps 5 and 6 up to the last await: the session object is created.
StartCreate ==
  /\ starting.active
  /\ starting.pc = 4
  /\ starting' = [starting EXCEPT !.pc = 5,
                                  !.session = createDiagnosticSession(starting.vehicle, nextSessionId)]
  /\ nextSessionId' = nextSessionId + 1
  /\ scanProgress' = Checkpoint(5)
  /\ UNCHANGED <<diagnosticSession, sessionHistory, currentPage, selectedECU, dtcData, isScanning,
                 diagnosticErrors, lsSession, lsSessionHistory, dtcCache, loading, loaderCalls,
                 served, overlapped, failed, corruptBlobs>>

\* After the last await: the session becomes the active one, is added to the
\* history the closure holds and is stored; then the finally block.
StartFinish ==
  /\ starting.active
  /\ starting.pc = 5
  /\ diagnosticSession' = starting.session
  /\ addToSessionHistory(starting.history, starting.session)
  /\ lsSession' = starting.session
  /\ isScanning' = FALSE
  /\ scanProgress' = 0
  /\ starting' = NotStarting
  /\ UNCHANGED <<currentPage, selectedECU, dtcData, diagnosticErrors, dtcCache, loading,
                 nextSessionId, loaderCalls, served, overlapped, failed, corruptBlobs>>

\* The message startDiagnosticSession leaves in diagnosticErrors when it fails.
StartError == "start failed"

\* startDiagnosticSession(null): reading vehicleData.vin throws before the first
\* await; the catch block records the error and the finally block runs.
StartNullVehicle ==
  /\ isScanning' = FALSE
  /\ scanProgress' = 0
  /\ diagnosticErrors' = StartError
  /\ UNCHANGED <<diagnosticSession, sessionHistory, currentPage, selectedECU, dtcData, lsSession,
                 lsSessionHistory, dtcCache, starting, loading, nextSessionId, loaderCalls, served,
                 overlapped, failed, corruptBlobs>>

\* The places of the last segment where localStorage.setItem can throw (quota
\* exceeded, storage disabled): in addToSessionHistory, and for the session.
StorageWrites == {"history", "session"}

\* After the last await, with a storage write that throws: the state updates
\* queued before the throw stay queued, the catch block records the error.
StartFinishStorageFails(write) ==
  /\ starting.active
  /\ starting.pc = 5
  /\ diagnosticSession' = starting.session
  /\ sessionHistory' = updatedHistory(starting.history, starting.session)
  /\ lsSessionHistory' = IF write = "history"
                         THEN lsSessionHistory
                         ELSE Stored(updatedHistory(starting.history, starting.session))
  /\ diagnosticErrors' = StartError
  /\ isScanning' = FALSE
  /\ scanProgress' = 0
  /\ starting' = NotStarting
  /\ UNCHANGED <<currentPage, selectedECU, dtcData, lsSession, dtcCache, loading, nextSessionId,
                 loaderCalls, served, overlapped, failed, corruptBlobs>>

\* endDiagnosticSession is rebuilt whenever the session or the history changes,
\* so it reads the current ones.
EndDiagnosticSession ==
  /\ IF IsSession(diagnosticSession)
     THEN addToSessionHistory(sessionHistory, endedSession(diagnosticSession))
     ELSE UNCHANGED <<sessionHistory, lsSessionHistory>>
  /\ diagnosticSession' = NoSession
  /\ currentPage' = "dashboard"
  /\ selectedECU' = "null"
  /\ dtcData' = "none"
  /\ diagnosticErrors' = "none"
  /\ lsSession' = NoSession
  /\ UNCHANGED <<isScanning, scanProgress, dtcCache, starting, loading, nextSessionId,
                 loaderCalls, served, overlapped, failed, corruptBlobs>>

(***************************************************************************)
(* Diagnostic context: DTC loading and its result cache                    *)
(***************************************************************************)
\* The modules whose DTC data is loaded.
DiagModules == Modules

\* `${moduleId}_${diagnosticSession?.id}`; id 0 stands for "undefined".
cacheKey(moduleId, session) == <<moduleId, session.id>>

CacheKeys == DiagModules \X (0..MaxSessions)

RECURSIVE SumOver(_, _)
SumOver(f, S) == IF S = {} THEN 0 ELSE LET x == CHOOSE y \in S : TRUE IN f[x] + SumOver(f, S \ {x})

\* The suspended calls as a bag of [m, session] records.
Suspend(bag, r) == IF r \in DOMAIN bag THEN [bag EXCEPT ![r] = @ + 1] ELSE Put(bag, r, 1)

Resume(bag, r) == IF bag[r] = 1 THEN Del(bag, r) ELSE [bag EXCEPT ![r] = @ - 1]

\* The suspended calls with cache key k.
InFlight(k) == SumOver(loading, {r \in DOMAIN loading : cacheKey(r.m, r.session) = k})

\* The loadDTCData calls made so far.
LoadCalls == SumOver(served, CacheKeys) + SumOver(loading, DOMAIN loading)

CacheWrite_Dropped(cache, k) == cache

\* localStorage.setItem(`${DTC_CACHE_KEY}_${cacheKey}`, ...)
CacheWrite(cache, k) == cache \cup {k}

\* loadDTCData when the cache has the key and JSON.parse accepts the blob: no
\* await, the stored records are shown and the loader is not called.
LoadDTCDataCached(m) ==
  /\ LoadCalls < MaxLoadCalls
  /\ cacheKey(m, diagnosticSession) \in dtcCache
  /\ cacheKey(m, diagnosticSession) \notin corruptBlobs
  /\ dtcData' = m
  /\ isScanning' = FALSE
  /\ diagnosticErrors' = "none"
  /\ served' = [served EXCEPT ![cacheKey(m, diagnosticSession)] = @ + 1]
  /\ UNCHANGED <<diagnosticSession, sessionHistory, currentPage, selectedECU, scanProgress, lsSession,
                 lsSessionHistory, dtcCache, starting, loading, nextSessionId, loaderCalls, overlapped, failed, corruptBlobs>>

\* loadDTCData when the cache lacks the key, up to its await. The call keeps
\* the key it computed and the session of the render that created it.
LoadDTCDataBegin(m) ==
  /\ LoadCalls < MaxLoadCalls
  /\ cacheKey(m, diagnosticSession) \notin dtcCache
  /\ loading' = Suspend(loading, [m |-> m, session |-> diagnosticSession])
  /\ overlapped' = IF InFlight(cacheKey(m, diagnosticSession)) > 0
                   THEN overlapped \cup {cacheKey(m, diagnosticSession)}
                   ELSE overlapped
  /\ isScanning' = TRUE
  /\ diagnosticErrors' = "none"
  /\ UNCHANGED <<diagnosticSession, sessionHistory, currentPage, selectedECU, dtcData, scanProgress,
                 lsSession, lsSessionHistory, dtcCache, starting, nextSessionId, loaderCalls, served, failed, corruptBlobs>>

\* loadDTCData after its await: the loader runs, its result is shown and
\* cached, the activity is logged on the session the closure holds.
LoadDTCDataFinish(r) ==
  /\ r \in DOMAIN loading
  /\ loading' = Resume(loading, r)
  /\ loaderCalls' = [loaderCalls EXCEPT ![cacheKey(r.m, r.session)] = @ + 1]
  /\ dtcData' = r.m
  /\ dtcCache' = CacheWrite(dtcCache, cacheKey(r.m, r.session))
  /\ corruptBlobs' = corruptBlobs \ {cacheKey(r.m, r.session)}
  /\ updateSessionActivity(r.session)
  /\ isScanning' = FALSE
  /\ served' = [served EXCEPT ![cacheKey(r.m, r.session)] = @ + 1]
  /\ UNCHANGED <<sessionHistory, currentPage, selectedECU, scanProgress, diagnosticErrors,
                 lsSessionHistory, starting, nextSessionId, overlapped, failed>>

\* The message loadDTCData leaves in diagnosticErrors when it fails.
LoadError == "load failed"

FailedLoad_Cached(cache, k) == cache \cup {k}

\* The cache after a load whose loader threw: the throw skips the setItem.
FailedLoad(cache, k) == cache

\* loadDTCData after its await, with a loader that throws: nothing is shown,
\* stored or logged; the catch block records the error, then the finally block.
LoadDTCDataFails(r) ==
  /\ r \in DOMAIN loading
  /\ loading' = Resume(loading, r)
  /\ loaderCalls' = [loaderCalls EXCEPT ![cacheKey(r.m, r.session)] = @ + 1]
  /\ dtcCache' = FailedLoad(dtcCache, cacheKey(r.m, r.session))
  /\ diagnosticErrors' = LoadError
  /\ isScanning' = FALSE
  /\ served' = [served EXCEPT ![cacheKey(r.m, r.session)] = @ + 1]
  /\ failed' = [failed EXCEPT ![cacheKey(r.m, r.session)] = @ + 1]
  /\ UNCHANGED <<diagnosticSession, sessionHistory, currentPage, selectedECU, dtcData, scanProgress,
                 lsSession, lsSessionHistory, starting, nextSessionId, overlapped, corruptBlobs>>

\* Removes every stored blob whose key starts with the cache prefix.
ClearDiagnosticCache ==
  /\ dtcCache' = {}
  /\ corruptBlobs' = {}
  /\ UNCHANGED <<diagnosticSession, sessionHistory, currentPage, selectedECU, dtcData, isScanning,
                 scanProgress, diagnosticErrors, lsSession, lsSessionHistory, starting, loading,
                 nextSessionId, loaderCalls, served, overlapped, failed>>

DiagInit ==
  /\ diagnosticSession = NoSession
  /\ sessionHistory = <<>>
  /\ currentPage = "dashboard"
  /\ selectedECU = "null"
  /\ dtcData = "none"
  /\ isScanning = FALSE
  /\ scanProgress = 0
  /\ diagnosticErrors = "none"
  /\ lsSession = NoSession
  /\ lsSessionHistory = Absent
  /\ dtcCache = {}
  /\ starting = NotStarting
  /\ loading = EmptyMap
  /\ nextSessionId = 1
  /\ loaderCalls = [k \in CacheKeys |-> 0]
  /\ served = [k \in CacheKeys |-> 0]
  /\ overlapped = {}
  /\ failed = [k \in CacheKeys |-> 0]
  /\ corruptBlobs = {}

\* MainApplication and the vehicle context before a vehicle is set up.
AppInit ==
  /\ currentVehicle = "none"
  /\ currentRoute = "vehicle_setup"
  /\ pageHistory = <<"vehicle_setup">>

Init == ModuleInit /\ DiagInit /\ AppInit

\* The session manager and the DTC loader, as the views use them.
DiagNext ==
  \/ \E v \in Vehicles : StartBegin(v)
  \/ StartStep
  \/ StartCreate
  \/ StartFinish
  \/ EndDiagnosticSession
  \/ \E m \in DiagModules : LoadDTCDataCached(m)
  \/ \E m \in DiagModules : LoadDTCDataBegin(m)
  \/ \E r \in DOMAIN loading : LoadDTCDataFinish(r)

\* The session manager alone, with the vehicles and the failures of a start.
SessionNext ==
  \/ \E v \in Vehicles \cup {NoEcuVehicle} : StartBegin(v)
  \/ StartNullVehicle
  \/ StartStep
  \/ StartCreate
  \/ StartFinish
  \/ \E write \in StorageWrites : StartFinishStorageFails(write)
  \/ EndDiagnosticSession

SpecSession == Init /\ [][SessionNext /\ UNCHANGED <<moduleVars, appVars>>]_vars

\* The DTC loader with a loader that can fail, under the sessions of one vehicle.
LoadNext ==
  \/ StartBegin("vA")
  \/ StartStep
  \/ StartCreate
  \/ StartFinish
  \/ \E m \in DiagModules : LoadDTCDataCached(m)
  \/ \E m \in DiagModules : LoadDTCDataBegin(m)
  \/ \E r \in DOMAIN loading : LoadDTCDataFinish(r)
  \/ \E r \in DOMAIN loading : LoadDTCDataFails(r)

SpecLoad == Init /\ [][LoadNext /\ UNCHANGED <<moduleVars, appVars>>]_vars

SpecDiag == Init /\ [][DiagNext /\ UNCHANGED <<moduleVars, appVars>>]_vars

\* The same with clearDiagnosticCache, which no view calls.
SpecDiagClear == Init /\ [][(DiagNext \/ ClearDiagnosticCache) /\ UNCHANGED <<moduleVars, appVars>>]_vars

\* selectModule and updateModuleProgress only
ProgressNext ==
  \/ \E m \in ModuleIds : SelectModule(m)
  \/ \E m \in ModuleIds, u \in UpdateIds : UpdateModuleProgress(m, u)
  \/ \E m \in Modules : \E c1, c2 \in ModuleCalls(m) : SameTurn(c1, c2)

ModuleNext ==
  \/ ProgressNext
  \/ \E m \in Modules \cup {"null"} : ResetModuleProgress(m)

SpecProgress == Init /\ [][ProgressNext]_vars

SpecModule == Init /\ [][ModuleNext]_vars

\* JSON.parse(JSON.stringify(v)) of a stored record: booleans, numbers, strings
\* and arrays of strings come back as they were; a missing key leaves the
\* initial state {}.
FromStorage(item) == IF item.present THEN item.val ELSE EmptyMap

\* A stored text that JSON.parse rejects, as the value of a record.
Unparsable == [x \in {"<unparsable>"} |-> TRUE]

\* JSON.parse accepts the text of the item (an absent item is not parsed).
Parses(item) == ~Has(item.val, "<unparsable>")

\* What loadSavedProgress restores from the storage of state st, in a provider
\* that was just mounted. The three records are parsed in order inside one try
\* block: a text JSON.parse rejects ends the function, and the records after
\* it are not read. The catch block logs and removes nothing.
loadSavedProgress(st) ==
  [st EXCEPT !.am = "null",
             !.mp = IF Parses(st.lsP) THEN FromStorage(st.lsP) ELSE EmptyMap,
             !.ut = IF Parses(st.lsP) /\ Parses(st.lsT) THEN FromStorage(st.lsT) ELSE EmptyMap,
             !.mh = IF Parses(st.lsP) /\ Parses(st.lsT) /\ Parses(st.lsH)
                    THEN FromStorage(st.lsH) ELSE EmptyMap]

\* The page is reloaded: the provider is mounted again and restores its state.
Reload == Commit(loadSavedProgress(Store))

\* Progress reports for two different modules in the same turn.
UpdateBoth(m1, u1, m2, u2) == SameTurn(UpdateCall(m1, u1), UpdateCall(m2, u2))

ReloadNext ==
  \/ ModuleNext
  \/ \E m1, m2 \in Modules : \E u1, u2 \in UpdateIds : m1 # m2 /\ UpdateBoth(m1, u1, m2, u2)
  \/ Reload

SpecReload == Init /\ [][ReloadNext]_vars

(***************************************************************************)
(* Unlock predicates of the specification, over a progress record          *)
(***************************************************************************)
EcuIdPrerequisite(m) ==
  Has(moduleProgress, m) /\ Truthy(moduleProgress[m], "dtcAnalyzed") /\ HasCategories(moduleProgress[m])

EcuIdAccessed(m) == Has(moduleProgress, m) /\ Truthy(moduleProgress[m], "ecuIdAccessed")

\* The capability-gated tabs with their capability flags.
AdvancedTabs ==
  { <<"Live_Data", "live_data">>, <<"Actuators", "actuator_testing">>, <<"Routines", "diagnostic_routines">> }

HistoryLen(m) == IF Has(moduleHistory, m) THEN moduleHistory[m] ELSE 0

\* A turn in which updateModuleProgress(m, u) succeeded: every successful call
\* logs one entry in the history of m (the log is far below its cap).
Reported(m) == HistoryLen(m)' > HistoryLen(m)

\* The state right after the first selection of m.
FreshlySelected(m) ==
  /\ Has(moduleProgress, m) /\ moduleProgress[m] = initialProgress
  /\ Has(unlockedTabs, m) /\ unlockedTabs[m] = initialTabs

(***************************************************************************)
(* C1: the DTC tab of every catalog module is unlocked in every reachable  *)
(* state, also for a module that was never selected.                       *)
(* The code answers from unlockedTabs[m], which does not exist before the  *)
(* first selectModule(m) and which updateModuleProgress creates without a  *)
(* DTC key.                                                                *)
(***************************************************************************)
C1_DtcAlwaysUnlocked == \A m \in Modules : isTabUnlocked(m, "DTC")

(***************************************************************************)
(* C2 as stated: after every updateModuleProgress(m, u) the ECU_Id tab of  *)
(* m is unlocked iff the merged progress has dtcAnalyzed and a non-empty   *)
(* categoriesViewed.                                                       *)
(***************************************************************************)
C2_EcuIdIffPrerequisite ==
  [][\A m \in Modules :
       Reported(m) => (isTabUnlocked(m, "ECU_Id")' <=> EcuIdPrerequisite(m)')]_vars

(***************************************************************************)
(* C2 amended: after every updateModuleProgress(m, u) the ECU_Id tab of m  *)
(* is unlocked iff it was unlocked before the call or the merged progress  *)
(* has dtcAnalyzed and a non-empty categoriesViewed; and from the state    *)
(* right after select(m), a report of {dtcAnalyzed: true,                  *)
(* categoriesViewed: [c]} unlocks ECU_Id and leaves Live_Data, Actuators   *)
(* and Routines locked.                                                    *)
(***************************************************************************)
C2_EcuIdLatch ==
  [][\A m \in Modules :
       Reported(m) =>
         /\ isTabUnlocked(m, "ECU_Id")' <=> (isTabUnlocked(m, "ECU_Id") \/ EcuIdPrerequisite(m)')
         /\ (FreshlySelected(m) /\ Del(moduleProgress'[m], "lastUpdated") = Spread(initialProgress, progressData("dtcCat"))) =>
              /\ isTabUnlocked(m, "ECU_Id")'
              /\ \A t \in {"Live_Data", "Actuators", "Routines"} : ~isTabUnlocked(m, t)']_vars

\* ECU_Id stays unlocked although dtcAnalyzed was overwritten with false.
C2_Witness ==
  /\ isTabUnlocked("EMS", "ECU_Id")
  /\ ~Truthy(moduleProgress["EMS"], "dtcAnalyzed")
  /\ HasCategories(moduleProgress["EMS"])

(***************************************************************************)
(* C3 as stated: after every updateModuleProgress(m, u) each of Live_Data, *)
(* Actuators and Routines is unlocked iff the merged progress has          *)
(* ecuIdAccessed and the descriptor of m has the capability.               *)
(***************************************************************************)
C3_AdvancedIffPrerequisite ==
  [][\A m \in Modules :
       Reported(m) =>
         \A tc \in AdvancedTabs :
           isTabUnlocked(m, tc[1])' <=> (EcuIdAccessed(m)' /\ availableModules[m][tc[2]])]_vars

(***************************************************************************)
(* C3 amended: after every updateModuleProgress(m, u) each of Live_Data,   *)
(* Actuators and Routines is unlocked iff it was unlocked before the call, *)
(* or the merged progress has ecuIdAccessed and the descriptor of m has    *)
(* the capability.                                                         *)
(***************************************************************************)
C3_AdvancedLatch ==
  [][\A m \in Modules :
       Reported(m) =>
         \A tc \in AdvancedTabs :
           isTabUnlocked(m, tc[1])' <=>
             (isTabUnlocked(m, tc[1]) \/ (EcuIdAccessed(m)' /\ availableModules[m][tc[2]]))]_vars

\* Live_Data of SVS stays unlocked although ecuIdAccessed was overwritten.
C3_Witness ==
  /\ isTabUnlocked("SVS", "Live_Data")
  /\ ~isTabUnlocked("SVS", "Actuators")
  /\ Has(moduleProgress["SVS"], "ecuIdAccessed")
  /\ moduleProgress["SVS"]["ecuIdAccessed"] = FALSE

(***************************************************************************)
(* C4: a tab whose capability flag is false is locked in every reachable   *)
(* state, and a tab whose flag is true is unlocked whenever the progress   *)
(* of the module has ecuIdAccessed (SVS: Live_Data opens, Actuators and    *)
(* Routines never do).                                                     *)
(***************************************************************************)
C4_CapabilityGate ==
  \A m \in Modules : \A tc \in AdvancedTabs :
    /\ ~availableModules[m][tc[2]] => ~isTabUnlocked(m, tc[1])
    /\ (availableModules[m][tc[2]] /\ EcuIdAccessed(m)) => isTabUnlocked(m, tc[1])

C4_Witness ==
  /\ EcuIdAccessed("SVS")
  /\ isTabUnlocked("SVS", "Live_Data")
  /\ ~isTabUnlocked("SVS", "Actuators")
  /\ ~isTabUnlocked("SVS", "Routines")

(***************************************************************************)
(* C5: without a reset, a tab that is unlocked stays unlocked across every *)
(* turn of selectModule and updateModuleProgress calls.                    *)
(***************************************************************************)
C5_NoRelock ==
  [][\A m \in Modules, t \in TabNames : isTabUnlocked(m, t) => isTabUnlocked(m, t)']_vars

\* Every tab of EMS is unlocked and a later report has lowered ecuIdAccessed.
C5_Witness ==
  /\ \A t \in {"DTC", "Live_Data", "Actuators", "Routines"} : isTabUnlocked("EMS", t)
  /\ ~EcuIdAccessed("EMS")

(***************************************************************************)
(* Session and cache predicates of the specification                       *)
(***************************************************************************)
\* The cache keys of real sessions.
SessionKeys == {k \in CacheKeys : k[2] # 0}

\* A step in which a loadDTCData call for key k completes.
Served(k) == served'[k] > served[k]

\* A step in which endDiagnosticSession ends the active session: no other
\* handler sets the session to null.
Ended == IsSession(diagnosticSession) /\ ~IsSession(diagnosticSession')

\* A step in which startDiagnosticSession installs its session over another
\* active one.
Replaced ==
  /\ starting.active /\ ~starting'.active
  /\ IsSession(diagnosticSession)
  /\ diagnosticSession'.id # diagnosticSession.id

InHistoryAs(history, id, status) ==
  \E i \in 1..Len(history) : history[i].id = id /\ history[i].status = status

C7_LoaderAtMostOnce == \A k \in SessionKeys : loaderCalls[k] <= 1

(***************************************************************************)
(* C8 as stated: when endDiagnosticSession has ended session s, no cache   *)
(* entry keyed by (m, s) remains, for any module m.                        *)
(* endDiagnosticSession removes the stored session only; the cache blobs   *)
(* are removed by clearDiagnosticCache, which it does not call.            *)
(***************************************************************************)
C8_EndInvalidatesCache ==
  [][Ended => \A m \in DiagModules : cacheKey(m, diagnosticSession) \notin dtcCache']_vars

(***************************************************************************)
(* C9 as stated: when startDiagnosticSession installs session B while      *)
(* session A is active, the history holds A with status 'completed', no    *)
(* cache entry of A remains, and no session other than B is recorded with  *)
(* status 'active'.                                                        *)
(* startDiagnosticSession never looks at the active session.               *)
(***************************************************************************)
C9_StartEndsActiveSession ==
  [][Replaced =>
       /\ InHistoryAs(sessionHistory', diagnosticSession.id, "completed")
       /\ \A m \in DiagModules : cacheKey(m, diagnosticSession) \notin dtcCache'
       /\ \A i \in 1..Len(sessionHistory') :
            sessionHistory'[i].status = "active" => sessionHistory'[i].id = diagnosticSession'.id
    ]_vars

(***************************************************************************)
(* C10: when endDiagnosticSession has ended session s, the session in      *)
(* memory is null, the stored current session is absent, and the history,  *)
(* in memory and stored, holds s with status 'completed'.                  *)
(***************************************************************************)
C10_EndPostcondition ==
  [][Ended =>
       /\ ~IsSession(diagnosticSession')
       /\ ~IsSession(lsSession')
       /\ InHistoryAs(sessionHistory', diagnosticSession.id, "completed")
       /\ ~InHistoryAs(sessionHistory', diagnosticSession.id, "active")
       /\ lsSessionHistory' = Stored(sessionHistory')
    ]_vars

\* A session was ended: none is active or stored, the history starts with it.
C10_Witness ==
  /\ ~IsSession(diagnosticSession)
  /\ ~IsSession(lsSession)
  /\ Len(sessionHistory) >= 1
  /\ sessionHistory[1].status = "completed"
  /\ lsSessionHistory = Stored(sessionHistory)

(***************************************************************************)
(* C11 as stated: a startDiagnosticSession call that fails fails as a      *)
(* whole: the step in which it fails leaves the active session, the        *)
(* session history and their stored records as they were, so no session    *)
(* of the failed call is retained anywhere.                                *)
(* The session and the history are set before the storage writes of the    *)
(* last segment; a write that throws leaves them set.                      *)
(***************************************************************************)
\* A step in which a suspended startDiagnosticSession call ends in its catch block.
StartFailed == starting.active /\ ~starting'.active /\ diagnosticErrors' = StartError

C11_StartFailsAtomically ==
  [][StartFailed =>
       /\ diagnosticSession' = diagnosticSession
       /\ sessionHistory' = sessionHistory
       /\ lsSession' = lsSession
       /\ lsSessionHistory' = lsSessionHistory
    ]_vars

(***************************************************************************)
(* C12 as stated: no session is ever created for a vehicle without a       *)
(* resolvable ECU module: the active session, the stored session and the   *)
(* sessions of the history all have at least one detected ECU.             *)
(* scanECUModules returns an empty list for such a vehicle and             *)
(* startDiagnosticSession goes on to create the session from it.           *)
(***************************************************************************)
C12_NoSessionWithoutEcus ==
  /\ IsSession(diagnosticSession) => diagnosticSession.totalECUs > 0
  /\ IsSession(lsSession) => lsSession.totalECUs > 0
  /\ \A i \in 1..Len(sessionHistory) : sessionHistory[i].totalECUs > 0

(***************************************************************************)
(* C13 as stated: when two updateModuleProgress calls for a selected       *)
(* module m run in the same turn, the progress of m afterwards has every   *)
(* field of both partial updates (the later call winning a field they      *)
(* share), every tab either call unlocks is unlocked, and the stored       *)
(* records say the same.                                                   *)
(* Both calls merge into the moduleProgress[m] and unlockedTabs[m] of the  *)
(* render they were created in, and the later one overwrites the earlier.  *)
(***************************************************************************)
\* The tabs of m that a call with update u, made alone, leaves unlocked.
UnlockedBy(m, u) ==
  {t \in TabNames : Truthy(NewUnlockedTabs(Store, m, MergedProgress(Store, m, u)), t)}

BothUpdatesKept(m, u1, u2) ==
  /\ \A f \in DOMAIN Spread(progressData(u1), progressData(u2)) :
        /\ Has(moduleProgress'[m], f)
        /\ moduleProgress'[m][f] = Spread(progressData(u1), progressData(u2))[f]
  /\ \A t \in UnlockedBy(m, u1) \cup UnlockedBy(m, u2) : isTabUnlocked(m, t)'
  /\ lsProgress' = Stored(moduleProgress')
  /\ lsTabs' = Stored(unlockedTabs')

C13_NoLostUpdate ==
  [][\A m \in Modules : \A u1, u2 \in UpdateIds :
       (/\ Has(moduleProgress, m)
        /\ Has(unlockedTabs, m)
        /\ SameTurn(UpdateCall(m, u1), UpdateCall(m, u2))) => BothUpdatesKept(m, u1, u2)
    ]_vars

(***************************************************************************)
(* C14 as stated: every updateModuleProgress on a module with a progress   *)
(* record is the field-by-field merge of some partial update u: a field    *)
(* outside u keeps its value, a scalar field of u takes the value in u,    *)
(* and an array field of u becomes the union of the old array and the      *)
(* array in u.                                                             *)
(* The code spreads u over the old record, so an array in u replaces the   *)
(* old array.                                                              *)
(***************************************************************************)
ArrayFields == {"categoriesViewed", "individualFreezeFramesViewed"}

Range(seq) == {seq[i] : i \in 1..Len(seq)}

\* new is old with upd merged in as the specification describes; the
\* timestamp of the update is left aside.
MergedAsSpecified(old, upd, new) ==
  /\ DOMAIN new \ {"lastUpdated"} = (DOMAIN old \cup DOMAIN upd) \ {"lastUpdated"}
  /\ \A f \in DOMAIN new \ {"lastUpdated"} :
        IF f \notin DOMAIN upd THEN new[f] = old[f]
        ELSE IF f \in ArrayFields /\ f \in DOMAIN old
             THEN Range(new[f]) = Range(old[f]) \cup Range(upd[f])
             ELSE new[f] = upd[f]

C14_MergeUnionsArrays ==
  [][\A m \in Modules :
       (Reported(m) /\ Has(moduleProgress, m)) =>
         \E u \in UpdateIds : MergedAsSpecified(moduleProgress[m], progressData(u), moduleProgress'[m])
    ]_vars

(***************************************************************************)
(* C15 as stated: in every reachable state, for every selected module m    *)
(* and partial update u, updateModuleProgress(m, u) made twice, one turn   *)
(* after the other, leaves the same progress record and the same tab       *)
(* gates of m as the call made once.                                       *)
(* Every call stamps the record with the time of the call (lastUpdated).   *)
(***************************************************************************)
\* The state after a turn with the one call updateModuleProgress(m, u).
AfterUpdate(st, m, u) == updateModuleProgress(st, st, m, u)

C15_UpdateIdempotent ==
  \A m \in Modules : \A u \in UpdateIds :
    Has(moduleProgress, m) =>
      /\ AfterUpdate(AfterUpdate(Store, m, u), m, u).mp[m] = AfterUpdate(Store, m, u).mp[m]
      /\ AfterUpdate(AfterUpdate(Store, m, u), m, u).ut[m] = AfterUpdate(Store, m, u).ut[m]

(***************************************************************************)
(* What the module operations return                                       *)
(***************************************************************************)
\* { success: false, error: 'Module not found' } or { success: true, module }
selectModuleResult(moduleId) ==
  IF ~InCatalog(moduleId)
  THEN [success |-> FALSE, error |-> "Module not found"]
  ELSE [success |-> TRUE, module |-> moduleId]

\* { success: false, error: 'Invalid module ID' } or { success: true, ... }
updateModuleProgressResult(moduleId) ==
  IF ~InCatalog(moduleId)
  THEN [success |-> FALSE, error |-> "Invalid module ID"]
  ELSE [success |-> TRUE, module |-> moduleId]

\* module?.diagnosticCapabilities || {}
getModuleCapabilities(moduleId) ==
  IF InCatalog(moduleId) THEN availableModules[moduleId] ELSE EmptyMap

\* A structured failure: an object that says success: false and why.
IsFailure(result) == Has(result, "success") /\ result["success"] = FALSE /\ Has(result, "error")

(***************************************************************************)
(* C16 as stated: selectModule, updateModuleProgress and                   *)
(* getModuleCapabilities, given an id outside the catalog, each return a   *)
(* structured failure, and in no reachable state is such an id the active  *)
(* module or the key of a progress, tab or history record, in memory or    *)
(* stored.                                                                 *)
(* getModuleCapabilities returns the empty object for such an id, which    *)
(* reads as a module without capabilities.                                 *)
(***************************************************************************)
C16_UnknownModuleFails ==
  \A moduleId \in ModuleIds \ DOMAIN availableModules :
    /\ activeModule # moduleId
    /\ ~Has(moduleProgress, moduleId) /\ ~Has(lsProgress.val, moduleId)
    /\ ~Has(unlockedTabs, moduleId) /\ ~Has(lsTabs.val, moduleId)
    /\ ~Has(moduleHistory, moduleId) /\ ~Has(lsHistory.val, moduleId)
    /\ IsFailure(selectModuleResult(moduleId))
    /\ IsFailure(updateModuleProgressResult(moduleId))
    /\ IsFailure(getModuleCapabilities(moduleId))

(***************************************************************************)
(* C17 as stated: after every successful updateModuleProgress(m, u), what  *)
(* a reload would restore is, for m, the progress and the tabs the call    *)
(* returned, and for every other module what a reload would have restored  *)
(* before the call, that is, what the latest call for that module left.    *)
(* The call stores the maps of the render it was created in with the       *)
(* entry of m replaced, not the stored maps with the entry of m replaced.  *)
(***************************************************************************)
C17_ReloadRestoresLatest ==
  [][\A m \in Modules :
       Reported(m) =>
         /\ Has(loadSavedProgress(Store').mp, m)
         /\ Has(loadSavedProgress(Store').ut, m)
         /\ \E u \in UpdateIds :
               /\ loadSavedProgress(Store').mp[m] = MergedProgress(Store, m, u)
               /\ loadSavedProgress(Store').ut[m] = NewUnlockedTabs(Store, m, MergedProgress(Store, m, u))
         /\ \A o \in Modules \ {m} :
               /\ Has(lsProgress.val, o) =>
                     (Has(lsProgress'.val, o) /\ lsProgress'.val[o] = lsProgress.val[o])
               /\ Has(lsTabs.val, o) =>
                     (Has(lsTabs'.val, o) /\ lsTabs'.val[o] = lsTabs.val[o])
    ]_vars

(***************************************************************************)
(* Module progress across sessions                                         *)
(***************************************************************************)
\* The progress reports that unlock tabs.
GateUpdates == {"dtcCat", "ecu"}

\* The session manager together with module selection and progress reports;
\* the reports are those made while a session is active.
TeardownNext ==
  \/ \E m \in Modules : SelectModule(m)
  \/ IsSession(diagnosticSession) /\ \E m \in Modules, u \in GateUpdates : UpdateModuleProgress(m, u)
  \/ (\E v \in Vehicles : StartBegin(v)) /\ UNCHANGED <<moduleVars, appVars>>
  \/ StartStep /\ UNCHANGED <<moduleVars, appVars>>
  \/ StartCreate /\ UNCHANGED <<moduleVars, appVars>>
  \/ StartFinish /\ UNCHANGED <<moduleVars, appVars>>
  \/ EndDiagnosticSession /\ UNCHANGED <<moduleVars, appVars>>

SpecTeardown == Init /\ [][TeardownNext]_vars

\* A step in which startDiagnosticSession installs a session for another vehicle.
ReplacedByOtherVehicle == Replaced /\ diagnosticSession'.vehicleId # diagnosticSession.vehicleId

(***************************************************************************)
(* C18 as stated: when the active session is ended, or replaced by a       *)
(* session for a different vehicle, every tab but DTC of every module is   *)
(* locked afterwards and no progress record of the old session is left,    *)
(* in memory or stored.                                                    *)
(* Neither endDiagnosticSession nor startDiagnosticSession touches the     *)
(* module progress; resetModuleProgress is never called.                   *)
(***************************************************************************)
C18_SessionChangeInvalidatesProgress ==
  [][(Ended \/ ReplacedByOtherVehicle) =>
       \A m \in Modules :
         /\ \A t \in TabNames \ {"DTC"} : ~isTabUnlocked(m, t)'
         /\ Has(moduleProgress', m) => Del(moduleProgress'[m], "lastUpdated") = initialProgress
         /\ ~Has(lsProgress'.val, m)
    ]_vars

(***************************************************************************)
(* C20: a loader failure is not cached. The step in which loadDTCData      *)
(* fails for key (m, s) leaves the cache, the records shown and the        *)
(* session as they were and records the error; and a call is answered      *)
(* without the loader only when its key is in the cache, so the next call  *)
(* for (m, s) after a failure invokes the loader again.                    *)
(***************************************************************************)
\* A step in which the loader is invoked for key k and throws.
LoaderFailed(k) == failed'[k] > failed[k]

\* A step in which a call for key k is answered without the loader.
ServedFromCache(k) == Served(k) /\ loaderCalls'[k] = loaderCalls[k]

C20_LoaderFailureNotCached ==
  [][\A k \in CacheKeys :
       /\ LoaderFailed(k) =>
            /\ diagnosticErrors' = LoadError
            /\ dtcCache' = dtcCache
            /\ dtcData' = dtcData
            /\ diagnosticSession' = diagnosticSession /\ lsSession' = lsSession
       /\ ServedFromCache(k) => k \in dtcCache
    ]_vars

\* The loader failed for a key of a session and was invoked again by the
\* next call for the key, which stored its result.
C20_Witness ==
  \E k \in SessionKeys :
    /\ k \notin overlapped
    /\ served[k] = 2
    /\ failed[k] = 1
    /\ loaderCalls[k] = 2
    /\ k \in dtcCache

(***************************************************************************)
(* C19 as stated: after resetModuleProgress() without an argument, the     *)
(* progress, the tab gates and the module history recorded before are      *)
(* gone from memory and from storage.                                      *)
(* The reset removes the stored history but leaves moduleHistory in memory *)
(* as it was; the next updateModuleHistory stores it again.                *)
(***************************************************************************)
\* A step in which resetModuleProgress() removes a stored module history:
\* no other handler removes that key.
ResetAll == lsHistory.present /\ ~lsHistory'.present

C19_ResetIrreversible ==
  [][ResetAll =>
       /\ moduleProgress' = EmptyMap
       /\ unlockedTabs' = EmptyMap
       /\ moduleHistory' = EmptyMap
       /\ ~lsProgress'.present
       /\ ~lsTabs'.present
    ]_vars

(***************************************************************************)
(* C21 as stated: while startDiagnosticSession is in progress, scanProgress *)
(* never decreases and passes through every checkpoint 10, 25, 50, 75, 90, *)
(* 100 in that order, none skipped, before the session becomes active.     *)
(* setScanProgress(90) and setScanProgress(100) are called in one          *)
(* synchronous run with no await between them: the progress goes from 75   *)
(* to 100, and no render, timer or observer sees 90.                       *)
(***************************************************************************)
\* The checkpoints the specification lists, after the 0 of an idle context.
Checkpoints == <<0, 10, 25, 50, 75, 90, 100>>

\* b is the checkpoint that follows a.
NextCheckpoint(a, b) ==
  \E i \in 1..(Len(Checkpoints) - 1) : Checkpoints[i] = a /\ Checkpoints[i + 1] = b

\* A step of a start in progress that changes the reported progress.
ProgressReported == starting'.active /\ scanProgress' # scanProgress

C21_EveryCheckpointInOrder ==
  [][ProgressReported => NextCheckpoint(scanProgress, scanProgress')]_vars

(***************************************************************************)
(* C22 as stated: updateSessionActivity appends to the end of the action   *)
(* log of the session, the log never holds more than 50 entries, and it is *)
(* always the most recent 50 actions in order of arrival.                  *)
(* The cap is kept by slice(-50). The append is made to the log of the     *)
(* session object the caller's closure holds: two loadDTCData calls that   *)
(* were suspended under the same render each append to the log as it was   *)
(* then, and the second write replaces the entry of the first.             *)
(***************************************************************************)
\* The actions that arrived for session id: every load that ran the loader
\* to its end called updateSessionActivity('dtc_scan', ...).
ActionsArrived(id) == SumOver(loaderCalls, {k \in CacheKeys : k[2] = id})

\* The length of a log that holds the most recent ActionLogCap of n actions.
MostRecent(n) == IF n > ActionLogCap THEN ActionLogCap ELSE n

C22_LogHoldsMostRecentActions ==
  IsSession(diagnosticSession) =>
    diagnosticSession.actions = MostRecent(ActionsArrived(diagnosticSession.id))

(***************************************************************************)
(* The session history of earlier runs                                     *)
(***************************************************************************)
\* The sessions an earlier run of the application left in the stored history.
PreviousSessions == 9

\* The stored history of an earlier run: completed sessions, most recent first,
\* with ids -1, -2, ... that no session of this run has.
StoredHistory ==
  [i \in 1..PreviousSessions |->
     [id |-> 0 - i, vehicleId |-> "vA", status |-> "completed", actions |-> 0,
      totalECUs |-> Cardinality(scanECUModules("vA"))]]

\* The provider after its mount effect: initializeDiagnosticContext found no
\* stored session and restored the stored history.
RestoredDiagInit ==
  /\ diagnosticSession = NoSession
  /\ sessionHistory = StoredHistory
  /\ currentPage = "dashboard"
  /\ selectedECU = "null"
  /\ dtcData = "none"
  /\ isScanning = FALSE
  /\ scanProgress = 0
  /\ diagnosticErrors = "none"
  /\ lsSession = NoSession
  /\ lsSessionHistory = Stored(StoredHistory)
  /\ dtcCache = {}
  /\ starting = NotStarting
  /\ loading = EmptyMap
  /\ nextSessionId = 1
  /\ loaderCalls = [k \in CacheKeys |-> 0]
  /\ served = [k \in CacheKeys |-> 0]
  /\ overlapped = {}
  /\ failed = [k \in CacheKeys |-> 0]
  /\ corruptBlobs = {}

\* The application after its providers mounted over the storage of an earlier run.
RestoredInit == ModuleInit /\ RestoredDiagInit /\ AppInit

\* Starting and ending sessions on top of a restored history.
HistoryNext ==
  \/ \E v \in Vehicles \cup {NoEcuVehicle} : StartBegin(v)
  \/ StartStep
  \/ StartCreate
  \/ StartFinish
  \/ EndDiagnosticSession

SpecHistory == RestoredInit /\ [][HistoryNext /\ UNCHANGED <<moduleVars, appVars>>]_vars

(***************************************************************************)
(* C23: the session history never holds more than 10 entries and no two    *)
(* entries share an id; every addition puts the added session first,       *)
(* removes an older entry with the same id instead of duplicating it, and  *)
(* drops the oldest entry when an 11th distinct session is added.          *)
(***************************************************************************)
Ids(history) == [i \in 1..Len(history) |-> history[i].id]

Distinct(ids) == \A i, j \in 1..Len(ids) : i # j => ids[i] # ids[j]

WithoutId(ids, id) == SelectSeq(ids, LAMBDA x : x # id)

\* A step that calls addToSessionHistory, and the id of the session it adds:
\* the one a start created, or the active one that is ended.
HistoryAdd == sessionHistory' # sessionHistory

AddedId == IF starting.active /\ ~starting'.active THEN starting.session.id ELSE diagnosticSession.id

HistoryShape == Len(sessionHistory) <= SessionHistoryCap /\ Distinct(Ids(sessionHistory))

NoSessionKeys == {k \in CacheKeys : k[2] = 0}

C24_NoLoadWithoutSession ==
  \A k \in NoSessionKeys : loaderCalls[k] = 0 /\ served[k] = 0 /\ k \notin dtcCache

(***************************************************************************)
(* Stored records that JSON.parse rejects                                  *)
(***************************************************************************)
\* The three records of the module context.
ModuleRecords == {"progress", "tabs", "history"}

\* The text of a stored record of the module context is damaged outside the
\* handlers (an interrupted write, another tab, a manual edit).
CorruptRecord(key) ==
  /\ key = "progress" => lsProgress.present /\ Parses(lsProgress)
  /\ key = "tabs" => lsTabs.present /\ Parses(lsTabs)
  /\ key = "history" => lsHistory.present /\ Parses(lsHistory)
  /\ lsProgress' = IF key = "progress" THEN Stored(Unparsable) ELSE lsProgress
  /\ lsTabs' = IF key = "tabs" THEN Stored(Unparsable) ELSE lsTabs
  /\ lsHistory' = IF key = "history" THEN Stored(Unparsable) ELSE lsHistory
  /\ UNCHANGED <<activeModule, moduleProgress, unlockedTabs, moduleHistory>>
  /\ UNCHANGED <<diagVars, appVars>>

\* A stored session whose text JSON.parse rejects.
UnparsableSession == [NoSession EXCEPT !.status = "<unparsable>"]

SessionParses(session) == session.status # "<unparsable>"

HistoryParses(item) ==
  IF item.present /\ Len(item.val) > 0 THEN SessionParses(item.val[1]) ELSE TRUE

\* The text of the stored session or of the stored session history is damaged.
CorruptSessionRecord(key) ==
  /\ key = "session" => SessionParses(lsSession)
  /\ key = "history" => HistoryParses(lsSessionHistory)
  /\ lsSession' = IF key = "session" THEN UnparsableSession ELSE lsSession
  /\ lsSessionHistory' = IF key = "history" THEN Stored(<<UnparsableSession>>) ELSE lsSessionHistory
  /\ UNCHANGED <<diagnosticSession, sessionHistory, currentPage, selectedECU, dtcData, isScanning,
                 scanProgress, diagnosticErrors, dtcCache, starting, loading, nextSessionId,
                 loaderCalls, served, overlapped, failed, corruptBlobs>>

\* The text of a cache blob is damaged.
CorruptBlob(k) ==
  /\ k \in dtcCache
  /\ k \notin corruptBlobs
  /\ corruptBlobs' = corruptBlobs \cup {k}
  /\ UNCHANGED <<diagnosticSession, sessionHistory, currentPage, selectedECU, dtcData, isScanning,
                 scanProgress, diagnosticErrors, lsSession, lsSessionHistory, dtcCache, starting,
                 loading, nextSessionId, loaderCalls, served, overlapped, failed>>

\* The diagnostic provider is mounted again (the page is reloaded): its state
\* starts from the useState defaults, the suspended calls of the old page are
\* gone, and initializeDiagnosticContext restores the session and the history,
\* each in its own try block that removes a record JSON.parse rejects.
initializeDiagnosticContext ==
  /\ diagnosticSession' = IF SessionParses(lsSession) THEN lsSession ELSE NoSession
  /\ lsSession' = IF SessionParses(lsSession) THEN lsSession ELSE NoSession
  /\ sessionHistory' = IF lsSessionHistory.present /\ HistoryParses(lsSessionHistory)
                       THEN lsSessionHistory.val ELSE <<>>
  /\ lsSessionHistory' = IF HistoryParses(lsSessionHistory) THEN lsSessionHistory ELSE Absent
  /\ currentPage' = "dashboard"
  /\ selectedECU' = "null"
  /\ dtcData' = "none"
  /\ isScanning' = FALSE
  /\ scanProgress' = 0
  /\ diagnosticErrors' = "none"
  /\ starting' = NotStarting
  /\ loading' = EmptyMap
  /\ UNCHANGED <<dtcCache, nextSessionId, loaderCalls, served, overlapped, failed, corruptBlobs>>

\* loadDTCData when the cache has the key and JSON.parse rejects the blob: the
\* throw is caught by the catch block of the function, which records the error;
\* the loader is not called and the blob stays.
LoadDTCDataCorrupt(m) ==
  /\ LoadCalls < MaxLoadCalls
  /\ cacheKey(m, diagnosticSession) \in dtcCache
  /\ cacheKey(m, diagnosticSession) \in corruptBlobs
  /\ diagnosticErrors' = LoadError
  /\ isScanning' = FALSE
  /\ served' = [served EXCEPT ![cacheKey(m, diagnosticSession)] = @ + 1]
  /\ UNCHANGED <<diagnosticSession, sessionHistory, currentPage, selectedECU, dtcData, scanProgress,
                 lsSession, lsSessionHistory, dtcCache, starting, loading, nextSessionId, loaderCalls,
                 overlapped, failed, corruptBlobs>>

\* The progress reports and the DTC loads of one module, with reloads of the
\* page and damage to the stored records.
CorruptNext ==
  \/ SelectModule("EMS")
  \/ \E u \in GateUpdates : UpdateModuleProgress("EMS", u)
  \/ \E key \in ModuleRecords : CorruptRecord(key)
  \/ Reload
  \/ (\E key \in StorageWrites : CorruptSessionRecord(key)) /\ UNCHANGED <<moduleVars, appVars>>
  \/ initializeDiagnosticContext /\ UNCHANGED <<moduleVars, appVars>>
  \/ CorruptBlob(cacheKey("EMS", diagnosticSession)) /\ UNCHANGED <<moduleVars, appVars>>
  \/ LoadDTCDataBegin("EMS") /\ UNCHANGED <<moduleVars, appVars>>
  \/ (\E r \in DOMAIN loading : LoadDTCDataFinish(r)) /\ UNCHANGED <<moduleVars, appVars>>
  \/ LoadDTCDataCached("EMS") /\ UNCHANGED <<moduleVars, appVars>>
  \/ LoadDTCDataCorrupt("EMS") /\ UNCHANGED <<moduleVars, appVars>>

SpecCorrupt == RestoredInit /\ [][CorruptNext]_vars

(***************************************************************************)
(* C25 as stated: a stored record that fails to parse is treated as        *)
(* absent: the state falls back to its default, the damaged record is      *)
(* discarded, the intact records are still loaded, and loadDTCData on a    *)
(* damaged cache blob invokes the loader instead of failing.               *)
(* initializeDiagnosticContext does this. loadSavedProgress parses its     *)
(* three records in one try block and removes nothing; loadDTCData fails   *)
(* on a damaged blob on every call and never removes it.                   *)
(***************************************************************************)
\* What a mount restores from an item: its value, or the default when the
\* item is absent or damaged.
RestoredFrom(item, default) == IF item.present /\ Parses(item) THEN item.val ELSE default

\* A loadDTCData call that completes on a damaged blob without the loader.
CorruptLoadFails ==
  \E k \in corruptBlobs :
    served'[k] = served[k] + 1 /\ loaderCalls' = loaderCalls /\ loading' = loading

C25_CorruptRecordTreatedAsAbsent ==
  [][/\ Reload =>
          /\ moduleProgress' = RestoredFrom(lsProgress, EmptyMap)
          /\ unlockedTabs' = RestoredFrom(lsTabs, EmptyMap)
          /\ moduleHistory' = RestoredFrom(lsHistory, EmptyMap)
          /\ Parses(lsProgress') /\ Parses(lsTabs') /\ Parses(lsHistory')
     /\ initializeDiagnosticContext =>
          /\ sessionHistory' = IF lsSessionHistory.present /\ HistoryParses(lsSessionHistory)
                               THEN lsSessionHistory.val ELSE <<>>
          /\ diagnosticSession' = IF SessionParses(lsSession) THEN lsSession ELSE NoSession
          /\ SessionParses(lsSession') /\ HistoryParses(lsSessionHistory')
     /\ ~CorruptLoadFails
    ]_vars

(***************************************************************************)
(* MainApplication: routes and the back-navigation stack                   *)
(***************************************************************************)
\* Most actions the model lets a session log through navigation.
MaxNavActions == 2

PageHistoryCap == 10

\* The routes the views pass to navigateToRoute: onSetupComplete and the
\* dashboard buttons, onDTCAnalysis, onModuleSelect.
NavTargets == {"dashboard", "dtc_analysis", "universal_diagnostic"}

Routes == NavTargets \cup {"vehicle_setup"}

\* The routeMapping of the diagnostic-page effect.
routeMapping ==
  [dashboard |-> "dashboard", dtc_analysis |-> "dtc_analysis",
   universal_diagnostic |-> "universal_diagnostic"]

Last(s) == s[Len(s)]

LastN(s, n) == IF Len(s) <= n THEN s ELSE SubSeq(s, Len(s) - n + 1, Len(s))

updatePageHistory_Uncapped(prev, newRoute) ==
  IF Last(prev) = newRoute THEN prev ELSE prev \o <<newRoute>>

\* prev => prev[prev.length - 1] === newRoute ? prev : [...prev, newRoute].slice(-10)
updatePageHistory(prev, newRoute) ==
  IF Last(prev) = newRoute THEN prev ELSE LastN(prev \o <<newRoute>>, PageHistoryCap)

\* navigateToPage of the diagnostic context, as MainApplication holds it: the
\* callback is rebuilt with the session, so it logs on the current one.
navigateToPage(page, ecuId) ==
  /\ currentPage' = page
  /\ selectedECU' = IF ecuId # "null" THEN ecuId ELSE selectedECU
  /\ updateSessionActivity(diagnosticSession)
  /\ UNCHANGED <<sessionHistory, dtcData, isScanning, scanProgress, diagnosticErrors,
                 lsSessionHistory, dtcCache, starting, loading, nextSessionId, loaderCalls,
                 served, overlapped, failed, corruptBlobs>>

\* The effect of MainApplication on [currentPage, diagnosticSession], run after
\* the render that follows a handler which left the route and the stack at
\* route and history: with a session, the route follows the diagnostic page.
DiagnosticPageEffect(route, history) ==
  IF /\ currentPage' # currentPage \/ diagnosticSession' # diagnosticSession
     /\ IsSession(diagnosticSession')
     /\ currentPage' \in DOMAIN routeMapping
     /\ routeMapping[currentPage'] # route
  THEN /\ currentRoute' = routeMapping[currentPage']
       /\ pageHistory' = updatePageHistory(history, routeMapping[currentPage'])
  ELSE /\ currentRoute' = route
       /\ pageHistory' = history

\* The model stops navigating when the session has logged MaxNavActions actions.
NavBound == IsSession(diagnosticSession) => diagnosticSession.actions < MaxNavActions

navigateToRoute(route, ecuId) ==
  /\ IF route = "dashboard" THEN navigateToPage("dashboard", "null")
     ELSE IF route \in {"dtc_analysis", "universal_diagnostic"} THEN navigateToPage(route, ecuId)
     ELSE UNCHANGED diagVars
  /\ DiagnosticPageEffect(route, updatePageHistory(pageHistory, route))

NavigateToRoute(route, ecuId) ==
  /\ NavBound
  /\ navigateToRoute(route, ecuId)
  /\ UNCHANGED <<moduleVars, currentVehicle>>

\* The views that offer a way back: the header button when the stack has more
\* than one entry, and the onBack of the two diagnostic pages.
BackOffered == Len(pageHistory) > 1 \/ currentRoute \in {"dtc_analysis", "universal_diagnostic"}

ButLast(s) == SubSeq(s, 1, Len(s) - 1)

\* handleBackNavigation: every branch of its switch calls navigateToPage('dashboard').
HandleBackNavigation ==
  /\ BackOffered
  /\ NavBound
  /\ IF Len(pageHistory) > 1
     THEN /\ navigateToPage("dashboard", "null")
          /\ DiagnosticPageEffect(Last(ButLast(pageHistory)), ButLast(pageHistory))
     ELSE navigateToRoute("dashboard", "null")
  /\ UNCHANGED <<moduleVars, currentVehicle>>

\* A step of startDiagnosticSession under MainApplication: the effect runs
\* when the step changed the session.
UnderMainApplication(A) ==
  /\ A
  /\ DiagnosticPageEffect(currentRoute, pageHistory)
  /\ UNCHANGED <<moduleVars, currentVehicle>>

NavNext ==
  \/ NavigateToRoute("dashboard", "null")
  \/ \E route \in {"dtc_analysis", "universal_diagnostic"} : NavigateToRoute(route, "EMS")
  \/ HandleBackNavigation
  \/ UnderMainApplication(StartBegin("vA"))
  \/ UnderMainApplication(StartStep)
  \/ UnderMainApplication(StartCreate)
  \/ UnderMainApplication(StartFinish)

SpecNav == Init /\ [][NavNext]_vars

(***************************************************************************)
(* C26: navigateToRoute(route) leaves the back-history stack unchanged     *)
(* when route is already on top, and otherwise appends route, dropping the *)
(* oldest entry so that the stack never holds more than 10 entries.        *)
(***************************************************************************)
\* A step that is a call navigateToRoute(route, ...).
NavigatedTo(route) == \E ecuId \in {"null", "EMS"} : NavBound /\ navigateToRoute(route, ecuId)

C26_RouteStackDedupedAndCapped ==
  /\ [](Len(pageHistory) <= 10)
  /\ [][\A route \in NavTargets :
          NavigatedTo(route) =>
            pageHistory' = IF pageHistory[Len(pageHistory)] = route
                           THEN pageHistory
                           ELSE IF Len(pageHistory) = 10
                                THEN SubSeq(pageHistory, 2, 10) \o <<route>>
                                ELSE pageHistory \o <<route>>
       ]_vars

\* The 11th entry was appended: the stack is full and its oldest entry, the
\* vehicle setup the application starts on, is gone.
C26_Witness ==
  /\ Len(pageHistory) = 10
  /\ pageHistory[1] # "vehicle_setup"
  /\ currentRoute = pageHistory[10]

(***************************************************************************)
(* C27 as stated: handleBackNavigation on a stack of two or more entries   *)
(* pops exactly one entry and leaves the application on the new top once   *)
(* the effects it triggers have run; on a single-entry stack it changes    *)
(* nothing; the current route is never undefined.                          *)
(* Every branch of the handler calls navigateToPage('dashboard'). With a   *)
(* session active that call changes the session, the diagnostic-page       *)
(* effect runs, finds the page 'dashboard' different from the route just   *)
(* restored, and navigates forward to the dashboard again. On a            *)
(* single-entry stack the handler calls navigateToRoute('dashboard').      *)
(***************************************************************************)
C27_BackPopsExactlyOne ==
  /\ [](currentRoute \in Routes)
  /\ [][HandleBackNavigation =>
          IF Len(pageHistory) > 1
          THEN /\ pageHistory' = ButLast(pageHistory)
               /\ currentRoute' = Last(ButLast(pageHistory))
          ELSE /\ pageHistory' = pageHistory
               /\ currentRoute' = currentRoute
       ]_vars

(***************************************************************************)
(* C28 as stated: a loadDTCData call issued under session A that resumes   *)
(* after endDiagnosticSession, or after a later start succeeded, does not  *)
(* change which session is active, in memory or in the stored record.      *)
(* The resumed call runs the updateSessionActivity of the render it was    *)
(* created in: it sets the state and the stored record to session A with   *)
(* one more action.                                                        *)
(***************************************************************************)
\* A step in which a suspended loadDTCData call resumes and runs the loader.
LoadResumed == loaderCalls' # loaderCalls

C28_ResumedLoadKeepsActiveSession ==
  [][LoadResumed =>
       /\ diagnosticSession'.id = diagnosticSession.id
       /\ lsSession'.id = lsSession.id
    ]_vars

(***************************************************************************)
(* C29 as stated: unlocking is progressive: in every reachable state, a    *)
(* module with Live_Data, Actuators or Routines unlocked has ECU_Id        *)
(* unlocked; reporting ecuIdAccessed cannot unlock the advanced tabs while *)
(* ECU_Id is locked.                                                       *)
(* updateModuleProgress tests ecuIdAccessed alone for the advanced tabs,   *)
(* and the ECU identification view reports it on mount whatever its lock.  *)
(***************************************************************************)
C29_AdvancedImpliesEcuId ==
  \A m \in Modules :
    (\E tc \in AdvancedTabs : isTabUnlocked(m, tc[1])) => isTabUnlocked(m, "ECU_Id")

(***************************************************************************)
(* Vehicle context: the current vehicle                                    *)
(***************************************************************************)
\* The effect of MainApplication on [isVehicleSetup, currentVehicle], run after
\* a handler that set the current vehicle: the route becomes the dashboard.
VehicleSetupEffect ==
  /\ currentRoute' = "dashboard"
  /\ pageHistory' = updatePageHistory(pageHistory, "dashboard")

\* setCurrentVehicle(profile), then the startDiagnosticSession(vehicle) the
\* view calls in the same turn, up to its first await.
ActivateVehicle(v) ==
  /\ currentVehicle' = v
  /\ StartBegin(v)
  /\ VehicleSetupEffect
  /\ UNCHANGED moduleVars

\* handleSetup of NewVehicleSetup, from the last step of setupNewVehicle on.
HandleSetup(v) == currentVehicle # v /\ ActivateVehicle(v)

\* handleHistorySelection of NewVehicleSetup: selectVehicleFromHistory(vehicle),
\* then startDiagnosticSession.
HandleHistorySelection(v) == ActivateVehicle(v)

\* clearCurrentVehicle removes the stored session along with the stored
\* vehicle; the session state belongs to the diagnostic context and stays.
ClearCurrentVehicle ==
  /\ currentVehicle' = "none"
  /\ lsSession' = NoSession
  /\ UNCHANGED <<diagnosticSession, sessionHistory, currentPage, selectedECU, dtcData, isScanning,
                 scanProgress, diagnosticErrors, lsSessionHistory, dtcCache, starting, loading,
                 nextSessionId, loaderCalls, served, overlapped, failed, corruptBlobs>>
  /\ UNCHANGED <<moduleVars, currentRoute, pageHistory>>

\* onSetupComplete, which the view calls after a successful start.
OnSetupComplete == NavigateToRoute("dashboard", "null")

VehicleNext ==
  \/ \E v \in Vehicles : HandleSetup(v)
  \/ \E v \in Vehicles : HandleHistorySelection(v)
  \/ ClearCurrentVehicle
  \/ OnSetupComplete
  \/ UnderMainApplication(StartStep)
  \/ UnderMainApplication(StartCreate)
  \/ UnderMainApplication(StartFinish)

SpecVehicle == Init /\ [][VehicleNext]_vars

(***************************************************************************)
(* C30 as stated: whenever a session is active, a current vehicle is set   *)
(* and the session's vehicleId is its id; clearing the current vehicle or  *)
(* selecting another one never leaves a session of the previous vehicle    *)
(* active in memory.                                                       *)
(* The vehicle context never touches the state of the diagnostic context:  *)
(* clearCurrentVehicle removes only the stored session, and after a        *)
(* selection the old session stays active until the new start completes.   *)
(***************************************************************************)
C30_SessionBoundToCurrentVehicle ==
  IsSession(diagnosticSession) =>
    currentVehicle # "none" /\ diagnosticSession.vehicleId = currentVehicle

====
